---------------------------- MODULE Spec2Model ----------------------------
(***************************************************************************)
(* Behaviour layer of the Free-Flow Plumbing site (js/main.js): mobile     *)
(* menu, FAQ accordion, smooth anchor scroll, scroll reset, header shadow. *)
(*                                                                         *)
(* The page is a state machine.  One action is one browser event handled   *)
(* to completion: every listener the event reaches runs, in registration   *)
(* order on the target and then on the document it bubbles to.             *)
(***************************************************************************)
EXTENDS Integers, Sequences, FiniteSets, TLC

(* ------------------------------ bounds -------------------------------- *)
\* number of FAQ slots of the document (in document order)
NItems == 2
\* number of elements that carry an id an anchor can point to
NSections == 2
\* history.pushState calls followed per page load
MaxHistory == 2
\* toggle clicks counted in an uninterrupted run of toggle clicks
MaxClicks == 3
\* offsetTop of an anchor target
MaxOffsetTop == 60
\* offsetHeight of the header
MaxHeaderHeight == 30

(* ------------------------- program constants -------------------------- *)
\* main.js:172  if (scrollTop > 10)
ShadowThreshold == 10
\* main.js:127  ... - headerHeight - 20
ScrollPadding == 20

Items == 1..NItems
Sections == 1..NSections
\* an .faq-item holding a .faq-question; an .faq-item holding none;
\* a .faq-question whose parent is not an .faq-item
ItemKinds == {"item", "noQuestion", "stray"}
ScrollOffsets == {0, ShadowThreshold, ShadowThreshold + 1}
OffsetTops == {MaxOffsetTop}
HeaderHeights == {MaxHeaderHeight}
Keys == {"Escape", "Enter", " ", "Tab"}
\* href of a link: "#" alone, "#<id>" of an element of the page, "#<id>" of
\* no element, "#<text that is no CSS selector>", or another page
HrefKinds == {"hash", "id", "missing", "badsel", "page"}

VARIABLES
  doc,          \* the document as served: which elements exist
  readyState,   \* document.readyState
  phase,        \* "boot": script not run; "deferred": waiting for DOMContentLoaded; "ready"
  listeners,    \* registered listeners, in registration order
  calls,        \* the start-up functions called so far, in order
  dom,          \* everything the handlers read and write
  lastEvent,    \* the event handled last
  toggleRun     \* n if the events since start-up are exactly n toggle clicks, else -1

vars == <<doc, readyState, phase, listeners, calls, dom, lastEvent, toggleRun>>

(* ------------------------------ helpers ------------------------------- *)
\* Element.setAttribute(name, value) stores String(value)
BoolToString(b) == IF b THEN "true" ELSE "false"

\* one observable write or call of a handler, appended to the event's log
Emit(s, op, arg) == [s EXCEPT !.log = Append(@, <<op, arg>>)]

\* an exception leaves the running listener
Throw(s, code) == Emit(s, "throw", code)
Threw(s) == Len(s.log) > 0 /\ s.log[Len(s.log)][1] = "throw"

HasQuestion(k) == doc.faqKinds[k] \in {"item", "stray"}
IsFaqItem(k) == doc.faqKinds[k] \in {"item", "noQuestion"}

\* Every engine that parses this script (const, NodeList.forEach) provides
\* history.pushState, so the guard of line 135 is always taken.
HasPushState == TRUE


(* ---------------------------- mobile menu ----------------------------- *)
SetToggleAria(s, v) ==
  Emit([s EXCEPT !.toggleAria = v], "toggle.setAttribute", IF v = "true" THEN 1 ELSE 0)

\* main.js:26-33 with isExpanded read before the markers are toggled
MenuToggleClick_StaleAria(s) ==
  LET isExpanded == s.navActive
      s1 == [s EXCEPT !.toggleActive = ~@]
      s2 == [s1 EXCEPT !.navActive = ~@]
  IN SetToggleAria(s2, BoolToString(isExpanded))

\* main.js:26-33  menuToggle click listener
MenuToggleClick(s) ==
  LET s1 == [s EXCEPT !.toggleActive = ~@]
      s2 == [s1 EXCEPT !.navActive = ~@]
      isExpanded == s2.navActive
  IN SetToggleAria(s2, BoolToString(isExpanded))

\* main.js:37-41 without menuToggle.classList.remove('active')
NavLinkClick_KeepsToggle(s) ==
  LET s2 == [s EXCEPT !.navActive = FALSE]
  IN SetToggleAria(s2, "false")

\* main.js:37-41 with classList.toggle in place of classList.remove
NavLinkClick_Toggles(s) ==
  LET s1 == [s EXCEPT !.toggleActive = ~@]
      s2 == [s1 EXCEPT !.navActive = ~@]
  IN SetToggleAria(s2, BoolToString(s2.navActive))

\* main.js:37-41 removing 'active' from every element that carries it
NavLinkClick_ClearsAllActive(s) ==
  LET s1 == [s EXCEPT !.toggleActive = FALSE]
      s2 == [s1 EXCEPT !.navActive = FALSE]
      s3 == [s2 EXCEPT !.faqActive = [k \in Items |-> FALSE]]
  IN SetToggleAria(s3, "false")

\* main.js:37-41  click listener of every link inside nav
NavLinkClick(s) ==
  LET s1 == [s EXCEPT !.toggleActive = FALSE]
      s2 == [s1 EXCEPT !.navActive = FALSE]
  IN SetToggleAria(s2, "false")

\* main.js:45-54 without the isClickOnToggle test
DocumentClick_IgnoresToggle(s, ev) ==
  LET isClickInsideNav == ev.inNav
  IN IF ~isClickInsideNav /\ s.navActive
       THEN LET s1 == [s EXCEPT !.toggleActive = FALSE]
                s2 == [s1 EXCEPT !.navActive = FALSE]
            IN SetToggleAria(s2, "false")
       ELSE s

\* main.js:45-54 closing the menu only for clicks on elements that are
\* neither links nor FAQ questions
DocumentClick_PlainOnly(s, ev) ==
  LET isClickInsideNav == ev.inNav
      isClickOnControl == (ev.el # "other")
  IN IF ~isClickInsideNav /\ ~isClickOnControl /\ s.navActive
       THEN LET s1 == [s EXCEPT !.toggleActive = FALSE]
                s2 == [s1 EXCEPT !.navActive = FALSE]
            IN SetToggleAria(s2, "false")
       ELSE s

\* main.js:45-54  document click listener
DocumentClick(s, ev) ==
  LET isClickInsideNav == ev.inNav
      isClickOnToggle == (ev.el = "toggle")
  IN IF ~isClickInsideNav /\ ~isClickOnToggle /\ s.navActive
       THEN LET s1 == [s EXCEPT !.toggleActive = FALSE]
                s2 == [s1 EXCEPT !.navActive = FALSE]
            IN SetToggleAria(s2, "false")
       ELSE s

\* main.js:57-63 testing for the legacy key name 'Esc'
DocumentKeydown_LegacyName(s, ev) ==
  IF ev.key = "Esc" /\ s.navActive
    THEN LET s1 == [s EXCEPT !.toggleActive = FALSE]
             s2 == [s1 EXCEPT !.navActive = FALSE]
         IN SetToggleAria(s2, "false")
    ELSE s

\* main.js:57-63 without menuToggle.classList.remove('active')
DocumentKeydown_KeepsToggle(s, ev) ==
  IF ev.key = "Escape" /\ s.navActive
    THEN LET s2 == [s EXCEPT !.navActive = FALSE]
         IN SetToggleAria(s2, "false")
    ELSE s

\* main.js:57-63  document keydown listener
DocumentKeydown(s, ev) ==
  IF ev.key = "Escape" /\ s.navActive
    THEN LET s1 == [s EXCEPT !.toggleActive = FALSE]
             s2 == [s1 EXCEPT !.navActive = FALSE]
         IN SetToggleAria(s2, "false")
    ELSE s

(* --------------------------- FAQ accordion ---------------------------- *)
SetQuestionAria(s, k, v) ==
  Emit([s EXCEPT !.faqAria[k] = v], "question.setAttribute", k)

\* main.js:81-86  document.querySelectorAll('.faq-item').forEach(...), from
\* slot k on.  item.querySelector('.faq-question') is null for an item that
\* holds no question, and null.setAttribute throws a TypeError.
RECURSIVE CloseOtherItems(_, _, _)
CloseOtherItems(s, faqItem, k) ==
  IF k > NItems THEN s
  ELSE IF ~IsFaqItem(k) \/ k = faqItem THEN CloseOtherItems(s, faqItem, k + 1)
  ELSE LET s1 == [s EXCEPT !.faqActive[k] = FALSE]
       IN IF HasQuestion(k)
            THEN CloseOtherItems(SetQuestionAria(s1, k, "false"), faqItem, k + 1)
            ELSE Throw(s1, k)

\* main.js:76-91 with the mass-close of lines 81-86 commented out
FaqQuestionClick_KeepOthers(s, q) ==
  LET faqItem == q
      isActive == s.faqActive[faqItem]
  IN SetQuestionAria([s EXCEPT !.faqActive[faqItem] = ~@], q, BoolToString(~isActive))

\* main.js:76-91 with aria-expanded set to isActive instead of !isActive
FaqQuestionClick_StaleAria(s, q) ==
  LET faqItem == q
      isActive == s.faqActive[faqItem]
      s1 == CloseOtherItems(s, faqItem, 1)
  IN IF Threw(s1) THEN s1
     ELSE SetQuestionAria([s1 EXCEPT !.faqActive[faqItem] = ~@], q, BoolToString(isActive))

\* main.js:76-91  click listener of question q
FaqQuestionClick(s, q) ==
  LET faqItem == q   \* this.parentElement: the element of slot q
      isActive == s.faqActive[faqItem]
      s1 == CloseOtherItems(s, faqItem, 1)
  IN IF Threw(s1) THEN s1
     ELSE SetQuestionAria([s1 EXCEPT !.faqActive[faqItem] = ~@], q, BoolToString(~isActive))

(* --------------------------- smooth scroll ---------------------------- *)
\* main.js:113-143 with event.preventDefault() called on entry
AnchorClick_PreventsFirst(s, ev) ==
  LET s1 == Emit(s, "preventDefault", 0)
  IN IF ev.href = "hash" THEN s1
     ELSE IF ev.href = "badsel" THEN Throw(s1, 0)
     ELSE IF ev.href = "missing" THEN s1
     ELSE
       LET headerHeight == IF doc.hasHeader THEN ev.hh ELSE 0
           targetPosition == ev.top - headerHeight - ScrollPadding
           s2 == Emit(s1, "scrollTo", targetPosition)
           s3 == Emit([s2 EXCEPT !.history = Append(@, ev.n)], "pushState", ev.n)
           s4 == Emit([s3 EXCEPT !.tabindex = @ \cup {ev.n}], "setTabindex", ev.n)
       IN Emit([s4 EXCEPT !.focus = ev.n], "focus", ev.n)

\* main.js:113-143 with the header's height left out of targetPosition
AnchorClick_NoHeaderOffset(s, ev) ==
  IF ev.href = "hash" THEN s
  ELSE IF ev.href = "badsel" THEN Throw(s, 0)
  ELSE IF ev.href = "missing" THEN s
  ELSE
    LET s1 == Emit(s, "preventDefault", 0)
        targetPosition == ev.top - ScrollPadding
        s2 == Emit(s1, "scrollTo", targetPosition)
        s3 == Emit([s2 EXCEPT !.history = Append(@, ev.n)], "pushState", ev.n)
        s4 == Emit([s3 EXCEPT !.tabindex = @ \cup {ev.n}], "setTabindex", ev.n)
    IN Emit([s4 EXCEPT !.focus = ev.n], "focus", ev.n)

\* main.js:113-143 pushing the fragment only when it differs from the last
\* one pushed
AnchorClick_PushOnce(s, ev) ==
  IF ev.href = "hash" THEN s
  ELSE IF ev.href = "badsel" THEN Throw(s, 0)
  ELSE IF ev.href = "missing" THEN s
  ELSE
    LET s1 == Emit(s, "preventDefault", 0)
        headerHeight == IF doc.hasHeader THEN ev.hh ELSE 0
        targetPosition == ev.top - headerHeight - ScrollPadding
        s2 == Emit(s1, "scrollTo", targetPosition)
        s3 == IF HasPushState /\ (s2.history = <<>> \/ s2.history[Len(s2.history)] # ev.n)
                THEN Emit([s2 EXCEPT !.history = Append(@, ev.n)], "pushState", ev.n)
                ELSE s2
        s4 == Emit([s3 EXCEPT !.tabindex = @ \cup {ev.n}], "setTabindex", ev.n)
    IN Emit([s4 EXCEPT !.focus = ev.n], "focus", ev.n)

\* main.js:113-143  click listener of every a[href^="#"]
AnchorClick(s, ev) ==
  IF ev.href = "hash" THEN s                          \* targetId === '#'
  ELSE IF ev.href = "badsel" THEN Throw(s, 0)         \* querySelector: SyntaxError
  ELSE IF ev.href = "missing" THEN s                  \* targetElement is null
  ELSE
    LET s1 == Emit(s, "preventDefault", 0)
        headerHeight == IF doc.hasHeader THEN ev.hh ELSE 0
        targetPosition == ev.top - headerHeight - ScrollPadding
        s2 == Emit(s1, "scrollTo", targetPosition)
        s3 == IF HasPushState
                THEN Emit([s2 EXCEPT !.history = Append(@, ev.n)], "pushState", ev.n)
                ELSE s2
        s4 == Emit([s3 EXCEPT !.tabindex = @ \cup {ev.n}], "setTabindex", ev.n)
    IN Emit([s4 EXCEPT !.focus = ev.n], "focus", ev.n)

(* --------------------------- header shadow ---------------------------- *)
\* document.documentElement.scrollTop: the viewport's offset, as
\* window.pageYOffset is (in quirks mode it is 0, and it is read only when
\* window.pageYOffset is 0)
DocumentElementScrollTop(s) == s.pageYOffset

\* main.js:168-179 with scrollTop >= 10
HeaderScroll_AtLeast(s) ==
  LET scrollTop == IF s.pageYOffset # 0 THEN s.pageYOffset
                   ELSE DocumentElementScrollTop(s)
      s1 == IF scrollTop >= ShadowThreshold
              THEN [s EXCEPT !.boxShadow = "heavy"]
              ELSE [s EXCEPT !.boxShadow = "light"]
  IN [s1 EXCEPT !.lastScrollTop = scrollTop]

\* main.js:168-179  window scroll listener
HeaderScroll(s) ==
  LET scrollTop == IF s.pageYOffset # 0 THEN s.pageYOffset
                   ELSE DocumentElementScrollTop(s)
      s1 == IF scrollTop > ShadowThreshold
              THEN [s EXCEPT !.boxShadow = "heavy"]   \* 0 4px 12px rgba(0,0,0,0.2)
              ELSE [s EXCEPT !.boxShadow = "light"]   \* 0 4px 8px rgba(0,0,0,0.15)
  IN [s1 EXCEPT !.lastScrollTop = scrollTop]

(* ---------------------------- scroll reset ---------------------------- *)
\* main.js:151-156
scrollToTop(s) ==
  LET s1 == IF doc.hasScrollRestoration
              THEN [s EXCEPT !.scrollRestoration = "manual"]
              ELSE s
  IN Emit([s1 EXCEPT !.pageYOffset = 0], "scrollToOrigin", 0)


(* ------------------------------ start-up ------------------------------ *)
\* main.js:18-64 with the guard of line 23 testing the toggle alone
initMobileMenu_ToggleOnly ==
  IF ~doc.hasToggle THEN <<>>
  ELSE <<"toggle.click", "navlink.click", "document.click", "document.keydown">>

\* The four initializers return the listeners they register, in order.
\* main.js:18-64
initMobileMenu ==
  IF ~doc.hasToggle \/ ~doc.hasNav THEN <<>>
  ELSE <<"toggle.click", "navlink.click", "document.click", "document.keydown">>

\* main.js:70-101
initFAQ ==
  IF \A k \in Items : ~HasQuestion(k) THEN <<>>
  ELSE <<"question.click", "question.keydown">>

\* main.js:107-145  (the page holds links of every kind of href)
initSmoothScroll == <<"anchor.click">>

\* main.js:162-180
initHeaderScroll == IF ~doc.hasHeader THEN <<>> ELSE <<"window.scroll">>

\* main.js:190-202 with scrollToTop() called after the initializers
StartUp_ResetLast ==
  /\ dom' = scrollToTop([dom EXCEPT !.log = <<>>])
  /\ listeners' = initMobileMenu \o initFAQ \o initSmoothScroll \o initHeaderScroll
  /\ calls' = calls \o <<"initMobileMenu", "initFAQ", "initSmoothScroll",
                         "initHeaderScroll", "scrollToTop">>
  /\ phase' = "ready"

\* main.js:190-202 with initSmoothScroll() called before initMobileMenu()
StartUp_ScrollFirst ==
  /\ dom' = scrollToTop([dom EXCEPT !.log = <<>>])
  /\ listeners' = initSmoothScroll \o initMobileMenu \o initFAQ \o initHeaderScroll
  /\ calls' = calls \o <<"scrollToTop", "initMobileMenu", "initFAQ",
                         "initSmoothScroll", "initHeaderScroll">>
  /\ phase' = "ready"

\* main.js:190-194 and 198-202: the body of both branches of init()
StartUp ==
  /\ dom' = scrollToTop([dom EXCEPT !.log = <<>>])
  /\ listeners' = initMobileMenu \o initFAQ \o initSmoothScroll \o initHeaderScroll
  /\ calls' = calls \o <<"scrollToTop", "initMobileMenu", "initFAQ",
                         "initSmoothScroll", "initHeaderScroll">>
  /\ phase' = "ready"

(* --------------------------- event dispatch --------------------------- *)
NoEvent == [type |-> "none", el |-> "none", inNav |-> FALSE, href |-> "none",
            n |-> 0, key |-> "", top |-> 0, hh |-> 0, y |-> 0]

\* whether listener l is attached to the target of ev: addEventListener of
\* main.js:26, 37, 76, 94, 113
OnTarget(l, ev) ==
  CASE l = "toggle.click"     -> ev.type = "click" /\ ev.el = "toggle"
    [] l = "navlink.click"    -> ev.type = "click" /\ ev.el = "link" /\ ev.inNav
    [] l = "question.click"   -> ev.type = "click" /\ ev.el = "question"
    [] l = "anchor.click"     -> ev.type = "click" /\ ev.el = "link" /\ ev.href # "page"
    [] l = "question.keydown" -> ev.type = "keydown" /\ ev.el = "question"
    [] OTHER                  -> FALSE

\* whether listener l is attached to the document (or window) and ev reaches
\* it: addEventListener of main.js:45, 57, 168
OnDocument(l, ev) ==
  CASE l = "document.click"   -> ev.type = "click"
    [] l = "document.keydown" -> ev.type = "keydown"
    [] l = "window.scroll"    -> ev.type = "scroll"
    [] OTHER                  -> FALSE

\* an exception thrown by a listener is reported and the dispatch goes on
Reported(s) == IF Threw(s) THEN Emit(s, "reportError", 0) ELSE s

\* the click listeners, by name
ClickListener(s, l, ev) ==
  CASE l = "toggle.click"   -> MenuToggleClick(s)
    [] l = "navlink.click"  -> NavLinkClick(s)
    [] l = "question.click" -> FaqQuestionClick(s, ev.n)
    [] l = "anchor.click"   -> AnchorClick(s, ev)
    [] l = "document.click" -> DocumentClick(s, ev)
    [] OTHER                -> s

\* a click on the target of ev: the target's listeners in registration order
\* (from position k of the listener list), then the document's
RECURSIVE ClickAtTarget(_, _, _)
ClickAtTarget(s, ev, k) ==
  IF k > Len(listeners) THEN s
  ELSE IF OnTarget(listeners[k], ev)
    THEN ClickAtTarget(Reported(ClickListener(s, listeners[k], ev)), ev, k + 1)
    ELSE ClickAtTarget(s, ev, k + 1)

RECURSIVE ClickAtDocument(_, _, _)
ClickAtDocument(s, ev, k) ==
  IF k > Len(listeners) THEN s
  ELSE IF OnDocument(listeners[k], ev)
    THEN ClickAtDocument(Reported(ClickListener(s, listeners[k], ev)), ev, k + 1)
    ELSE ClickAtDocument(s, ev, k + 1)

DispatchClick(s, ev) == ClickAtDocument(ClickAtTarget(s, ev, 1), ev, 1)

\* main.js:94-99 without the test for ' '
FaqQuestionKeydown_EnterOnly(s, ev) ==
  IF ev.key = "Enter"
    THEN DispatchClick(Emit(s, "preventDefault", 0), [ev EXCEPT !.type = "click", !.key = ""])
    ELSE s

\* main.js:94-99  keydown listener of question q; this.click() dispatches a
\* click on the question before the listener returns
FaqQuestionKeydown(s, ev) ==
  IF ev.key = "Enter" \/ ev.key = " "
    THEN DispatchClick(Emit(s, "preventDefault", 0), [ev EXCEPT !.type = "click", !.key = ""])
    ELSE s

\* a keydown on the target of ev: the question's listener, then the document's
DispatchKeydown(s, ev) ==
  LET s1 == IF \E k \in 1..Len(listeners) : OnTarget(listeners[k], ev)
              THEN Reported(FaqQuestionKeydown(s, ev))
              ELSE s
  IN IF \E k \in 1..Len(listeners) : OnDocument(listeners[k], ev)
       THEN Reported(DocumentKeydown(s1, ev))
       ELSE s1

\* a scroll event: the viewport is at ev.y when the listener runs
DispatchScroll(s, ev) ==
  LET s1 == [s EXCEPT !.pageYOffset = ev.y]
  IN IF \E k \in 1..Len(listeners) : OnDocument(listeners[k], ev)
       THEN HeaderScroll(s1)
       ELSE s1


(* ---------------------------- the documents --------------------------- *)
AllDocuments ==
  [hasToggle : BOOLEAN, hasNav : BOOLEAN, hasHeader : BOOLEAN,
   hasScrollRestoration : BOOLEAN,
   faqKinds : [Items -> ItemKinds]]

\* the page the features expect: every element present, every FAQ item
\* holding its question
Complete(d) ==
  /\ d.hasToggle /\ d.hasNav
  /\ \A k \in Items : d.faqKinds[k] = "item"

\* the number of expected elements d lacks
Missing(d) ==
  (IF d.hasToggle THEN 0 ELSE 1) + (IF d.hasNav THEN 0 ELSE 1)
  + Cardinality({k \in Items : d.faqKinds[k] # "item"})

\* the complete page in a current engine, and the complete page without a
\* header in an engine without history.scrollRestoration
Documents ==
  {d \in AllDocuments : Complete(d) /\ d.hasHeader = d.hasScrollRestoration}

\* pages that lack one of the elements the menu or the accordion expects
DegradedDocuments ==
  {d \in AllDocuments : Missing(d) = 1 /\ d.hasHeader /\ d.hasScrollRestoration}

\* the page before the script runs: the menu closed, the FAQ items expanded
\* or not as the markup has them
InitialDoms ==
  {[toggleActive |-> FALSE, navActive |-> FALSE, toggleAria |-> "none",
    faqActive |-> fa, faqAria |-> [k \in Items |-> "none"],
    pageYOffset |-> 0, boxShadow |-> "unset", lastScrollTop |-> 0,
    scrollRestoration |-> "auto", history |-> <<>>, focus |-> 0,
    tabindex |-> {}, log |-> <<>>] :
     fa \in [Items -> BOOLEAN]}

InitOn(documents) ==
  /\ doc \in documents
  /\ readyState = "loading"
  /\ phase = "boot"
  /\ listeners = <<>>
  /\ calls = <<>>
  /\ dom \in InitialDoms
  /\ lastEvent = NoEvent
  /\ toggleRun = -1

Init == InitOn(Documents)

\* pages that lack the toggle or nav
NoMenuDocuments == {d \in DegradedDocuments : ~d.hasToggle \/ ~d.hasNav}

InitNoMenu == InitOn(NoMenuDocuments)

InitDegraded == InitOn(DegradedDocuments)

(* ------------------------------ the events ---------------------------- *)
Fresh == [dom EXCEPT !.log = <<>>]


\* main.js:186-204, 207  the script runs: init()
RunScript ==
  /\ phase = "boot"
  /\ lastEvent' = [NoEvent EXCEPT !.type = "script"]
  /\ IF readyState = "loading"
       THEN /\ phase' = "deferred"      \* addEventListener('DOMContentLoaded', ...)
            /\ dom' = Fresh
            /\ UNCHANGED <<listeners, calls, toggleRun>>
       ELSE /\ StartUp
            /\ toggleRun' = 0
  /\ UNCHANGED <<doc, readyState>>

\* the document finished parsing; main.js:189-195 runs if it was registered
DOMContentLoaded ==
  /\ readyState = "loading"
  /\ readyState' = "interactive"
  /\ lastEvent' = [NoEvent EXCEPT !.type = "DOMContentLoaded"]
  /\ IF phase = "deferred"
       THEN /\ StartUp
            /\ toggleRun' = 0
       ELSE /\ dom' = Fresh
            /\ UNCHANGED <<phase, listeners, calls, toggleRun>>
  /\ UNCHANGED doc

Handle(ev, s) ==
  /\ dom' = s
  /\ lastEvent' = ev
  /\ UNCHANGED <<doc, readyState, phase, listeners, calls>>

\* a click on the menu toggle
ToggleClicked ==
  /\ doc.hasToggle
  /\ LET ev == [NoEvent EXCEPT !.type = "click", !.el = "toggle"]
     IN Handle(ev, DispatchClick(Fresh, ev))
  /\ toggleRun' = IF phase = "ready" /\ toggleRun >= 0 /\ toggleRun < MaxClicks
                    THEN toggleRun + 1 ELSE -1

\* a click on a link, inside or outside nav
LinkClicked ==
  /\ \E inNav \in BOOLEAN, href \in HrefKinds, n \in Sections,
        top \in OffsetTops, hh \in HeaderHeights :
       /\ inNav => doc.hasNav
       /\ href = "page" => inNav
       /\ href # "id" => n = 1
       /\ (href = "id" /\ phase = "ready") => Len(dom.history) < MaxHistory
       /\ LET ev == [NoEvent EXCEPT !.type = "click", !.el = "link", !.inNav = inNav,
                                    !.href = href, !.n = IF href = "id" THEN n ELSE 0,
                                    !.top = IF href = "id" THEN top ELSE 0,
                                    !.hh = IF href = "id" /\ doc.hasHeader THEN hh ELSE 0]
          IN Handle(ev, DispatchClick(Fresh, ev))
  /\ toggleRun' = -1

\* a click on the question of FAQ slot q
QuestionClicked ==
  /\ \E q \in Items :
       /\ HasQuestion(q)
       /\ LET ev == [NoEvent EXCEPT !.type = "click", !.el = "question", !.n = q]
          IN Handle(ev, DispatchClick(Fresh, ev))
  /\ toggleRun' = -1

\* a click on anything else, inside or outside nav
ElsewhereClicked ==
  /\ \E inNav \in BOOLEAN :
       /\ inNav => doc.hasNav
       /\ LET ev == [NoEvent EXCEPT !.type = "click", !.el = "other", !.inNav = inNav]
          IN Handle(ev, DispatchClick(Fresh, ev))
  /\ toggleRun' = -1

\* a key pressed while a question, or something else, has focus
KeyPressed ==
  /\ \E key \in Keys, q \in 0..NItems :
       /\ q # 0 => HasQuestion(q)
       /\ q = 0 => key \in {"Escape", "Tab"}
       /\ LET ev == [NoEvent EXCEPT !.type = "keydown", !.key = key, !.n = q,
                                    !.el = IF q = 0 THEN "other" ELSE "question"]
          IN Handle(ev, DispatchKeydown(Fresh, ev))
  /\ toggleRun' = -1

\* the viewport scrolled to offset y
Scrolled ==
  /\ \E y \in ScrollOffsets :
       LET ev == [NoEvent EXCEPT !.type = "scroll", !.y = y]
       IN Handle(ev, DispatchScroll(Fresh, ev))
  /\ toggleRun' = -1

Next ==
  \/ RunScript
  \/ DOMContentLoaded
  \/ ToggleClicked
  \/ LinkClicked
  \/ QuestionClicked
  \/ ElsewhereClicked
  \/ KeyPressed
  \/ Scrolled

Spec == Init /\ [][Next]_vars

SpecNoMenu == InitNoMenu /\ [][Next]_vars

SpecDegraded == InitDegraded /\ [][Next]_vars

(* =========================== the properties =========================== *)
Ready == phase = "ready"

MenuState(s) == <<s.toggleActive, s.navActive, s.toggleAria>>
MenuClosed(s) == ~s.toggleActive /\ ~s.navActive /\ s.toggleAria = "false"
FaqState(s) == <<s.faqActive, s.faqAria>>
Expanded(s) == {k \in Items : s.faqActive[k]}
Ops(s) == {s.log[i][1] : i \in 1..Len(s.log)}

IsClickOn(ev, el) == ev.type = "click" /\ ev.el = el
\* a click whose target is neither inside nav nor the toggle
IsOutsideClick(ev) == ev.type = "click" /\ ev.el # "toggle" /\ ~ev.inNav

\* C1: starting from the closed menu, after a run of n clicks on the toggle
\* and nothing else the menu is open exactly when n is odd, both markers
\* agree, and once a click has happened aria-expanded is the string "true"
\* when the menu is open and "false" when it is closed.
C1_ToggleParity ==
  toggleRun >= 0 =>
    /\ dom.navActive = (toggleRun % 2 = 1)
    /\ dom.toggleActive = dom.navActive
    /\ toggleRun > 0 => dom.toggleAria = (IF dom.navActive THEN "true" ELSE "false")

C1_Witness ==
  toggleRun = 3 /\ dom.navActive /\ dom.toggleAria = "true" /\ IsClickOn(lastEvent, "toggle")

\* C2: a click on a question leaves at most one item expanded: the clicked
\* item alone if it was collapsed before the click, none if it was expanded.
C2_SingleOpen ==
  [][(Ready /\ IsClickOn(lastEvent', "question")) =>
       Expanded(dom') = (IF dom.faqActive[lastEvent'.n] THEN {} ELSE {lastEvent'.n})]_vars

C2_Witness ==
  /\ Ready /\ IsClickOn(lastEvent, "question")
  /\ Expanded(dom) = {lastEvent.n}
  /\ Len(dom.log) = NItems

\* C3: after a click on a question every question's aria-expanded is the
\* string form of its item's expanded flag: "false" for every item but the
\* clicked one, and for the clicked one the string of its new state.
C3_AriaMatchesExpanded ==
  (Ready /\ IsClickOn(lastEvent, "question")) =>
    \A k \in Items :
      /\ dom.faqAria[k] = (IF dom.faqActive[k] THEN "true" ELSE "false")
      /\ k # lastEvent.n => dom.faqAria[k] = "false"

C3_Witness ==
  /\ Ready /\ IsClickOn(lastEvent, "question")
  /\ dom.faqAria[lastEvent.n] = "true" /\ dom.faqActive[lastEvent.n]
  /\ \A k \in Items : k # lastEvent.n => dom.faqAria[k] = "false"

\* C4: after a click on a navigation link the menu is closed: no active
\* marker on nav or on the toggle, aria-expanded "false".
C4_NavLinkCloses ==
  (Ready /\ IsClickOn(lastEvent, "link") /\ lastEvent.inNav) => MenuClosed(dom)

C4_Witness ==
  /\ Ready /\ IsClickOn(lastEvent, "link") /\ lastEvent.inNav /\ lastEvent.href = "page"
  /\ dom.log = << <<"toggle.setAttribute", 0>> >>
  /\ MenuClosed(dom)

\* C5: a click outside nav and the toggle closes the menu when it is open
\* and leaves the menu state as it is when it is closed; a click on the
\* toggle flips the menu (the document's listener does not undo it), and a
\* click inside nav on something that is no link leaves the menu state alone.
C5_OutsideClick ==
  [][(Ready /\ lastEvent'.type = "click") =>
       /\ IsOutsideClick(lastEvent') =>
            IF dom.navActive THEN MenuClosed(dom')
            ELSE MenuState(dom') = MenuState(dom)
       /\ IsClickOn(lastEvent', "toggle") =>
            /\ dom'.navActive = ~dom.navActive
            /\ dom'.toggleActive = ~dom.toggleActive
       /\ (IsClickOn(lastEvent', "other") /\ lastEvent'.inNav) =>
            MenuState(dom') = MenuState(dom)]_vars

C5_Witness ==
  /\ Ready /\ IsClickOn(lastEvent, "other") /\ ~lastEvent.inNav
  /\ dom.log = << <<"toggle.setAttribute", 0>> >>
  /\ MenuClosed(dom)

IsKeydownOn(ev, el) == ev.type = "keydown" /\ ev.el = el
IsActivationKey(key) == key = "Enter" \/ key = " "
\* the pointer click on the question a keydown has as its target
ClickOf(ev) == [ev EXCEPT !.type = "click", !.key = ""]

\* C6 as stated: Escape while the menu is open closes it; Escape while it is
\* closed, and every other key in every state, leaves the menu state as it is.
C6_AsStated ==
  [][(Ready /\ lastEvent'.type = "keydown") =>
       IF lastEvent'.key = "Escape" /\ dom.navActive
         THEN MenuClosed(dom')
         ELSE MenuState(dom') = MenuState(dom)]_vars

\* C6, amended: Escape while the menu is open closes it; Escape while it is
\* closed and every other key leave the menu state as it is, except Enter or
\* Space on a FAQ question while the menu is open, which closes it (the click
\* the key triggers bubbles to the document's click listener).
C6_EscapeCloses ==
  [][(Ready /\ lastEvent'.type = "keydown") =>
       IF lastEvent'.key = "Escape" /\ dom.navActive
         THEN MenuClosed(dom')
       ELSE IF IsActivationKey(lastEvent'.key) /\ lastEvent'.el = "question" /\ dom.navActive
         THEN MenuClosed(dom')
         ELSE MenuState(dom') = MenuState(dom)]_vars

C6_Witness ==
  /\ Ready /\ IsKeydownOn(lastEvent, "other") /\ lastEvent.key = "Escape"
  /\ dom.log = << <<"toggle.setAttribute", 0>> >>
  /\ MenuClosed(dom)

\* C7 as stated: Enter or Space on a question ends in the state a pointer
\* click on that question ends in (FAQ flags, aria-expanded values, menu
\* state) and suppresses the key's default action; any other key on the
\* question changes nothing.
C7_AsStated ==
  [][(Ready /\ IsKeydownOn(lastEvent', "question")) =>
       IF IsActivationKey(lastEvent'.key)
         THEN /\ FaqState(dom') = FaqState(DispatchClick(Fresh, ClickOf(lastEvent')))
              /\ MenuState(dom') = MenuState(DispatchClick(Fresh, ClickOf(lastEvent')))
              /\ "preventDefault" \in Ops(dom')
         ELSE /\ FaqState(dom') = FaqState(dom)
              /\ MenuState(dom') = MenuState(dom)
              /\ dom'.log = <<>>]_vars

\* C7, amended: Enter or Space on a question ends in the state a pointer
\* click on that question ends in and suppresses the key's default action;
\* any other key on the question changes no FAQ state and suppresses nothing,
\* and changes the menu only when it is Escape and the menu is open, which
\* closes it.
C7_KeyboardEqualsClick ==
  [][(Ready /\ IsKeydownOn(lastEvent', "question")) =>
       IF IsActivationKey(lastEvent'.key)
         THEN /\ FaqState(dom') = FaqState(DispatchClick(Fresh, ClickOf(lastEvent')))
              /\ MenuState(dom') = MenuState(DispatchClick(Fresh, ClickOf(lastEvent')))
              /\ "preventDefault" \in Ops(dom')
         ELSE /\ FaqState(dom') = FaqState(dom)
              /\ "preventDefault" \notin Ops(dom')
              /\ IF lastEvent'.key = "Escape" /\ dom.navActive
                   THEN MenuClosed(dom')
                   ELSE MenuState(dom') = MenuState(dom) /\ dom'.log = <<>>]_vars

C7_Witness ==
  /\ Ready /\ IsKeydownOn(lastEvent, "question") /\ lastEvent.key = " "
  /\ dom.log[1] = <<"preventDefault", 0>>
  /\ Expanded(dom) = {lastEvent.n}
  /\ dom.faqAria[lastEvent.n] = "true"

IsAnchorClick(ev, href) == IsClickOn(ev, "link") /\ ev.href = href

\* C8: a click on a link whose href is "#", or "#id" with no element of that
\* id, leaves the scroll position as it is, pushes nothing to history, does
\* not suppress the default action and does not move focus.
C8_NoTargetNoEffect ==
  [][(Ready /\ (IsAnchorClick(lastEvent', "hash") \/ IsAnchorClick(lastEvent', "missing"))) =>
       /\ dom'.pageYOffset = dom.pageYOffset
       /\ dom'.history = dom.history
       /\ dom'.focus = dom.focus
       /\ dom'.tabindex = dom.tabindex
       /\ Ops(dom') \cap {"preventDefault", "scrollTo", "pushState", "setTabindex", "focus"} = {}]_vars

C8_Witness ==
  /\ Ready /\ IsAnchorClick(lastEvent, "missing") /\ ~lastEvent.inNav
  /\ dom.log = <<>>
  /\ dom.history # <<>> /\ dom.focus # 0

\* what the anchor listener does, as opposed to the menu's listeners that
\* the same click reaches
IsAnchorEffect(e) == e[1] # "toggle.setAttribute"

\* C9: a click on a link whose href is "#id" of an existing element suppresses
\* the default action and then, in this order, requests a scroll to
\* (target's offsetTop - header height - 20), the header height being 0 when
\* the page has no header, pushes "#id" to history, sets the target's
\* tabindex to -1 and focuses the target.
C9_ScrollPushFocus ==
  (Ready /\ IsAnchorClick(lastEvent, "id")) =>
    LET id == lastEvent.n
        headerHeight == IF doc.hasHeader THEN lastEvent.hh ELSE 0
        own == << <<"preventDefault", 0>>,
                  <<"scrollTo", lastEvent.top - headerHeight - 20>>,
                  <<"pushState", id>>, <<"setTabindex", id>>, <<"focus", id>> >>
    IN /\ SelectSeq(dom.log, IsAnchorEffect) = own
       /\ dom.history # <<>> /\ dom.history[Len(dom.history)] = id
       /\ id \in dom.tabindex
       /\ dom.focus = id

C9_Witness ==
  /\ Ready /\ IsAnchorClick(lastEvent, "id") /\ ~lastEvent.inNav /\ doc.hasHeader
  /\ dom.log[2] = <<"scrollTo", MaxOffsetTop - MaxHeaderHeight - 20>>
  /\ dom.history = <<1, 2>> /\ dom.focus = 2

C9_WitnessNoHeader ==
  /\ Ready /\ IsAnchorClick(lastEvent, "id") /\ ~doc.hasHeader
  /\ dom.log[2] = <<"scrollTo", MaxOffsetTop - 20>>

\* C10: after a scroll event the header's shadow is the heavy one exactly
\* when the offset of that event is greater than 10, and the light one
\* otherwise (offset 10: light), whatever the earlier events were.
C10_ShadowByOffset ==
  (Ready /\ doc.hasHeader /\ lastEvent.type = "scroll") =>
    /\ dom.boxShadow = (IF lastEvent.y > 10 THEN "heavy" ELSE "light")
    /\ dom.lastScrollTop = lastEvent.y

C10_Witness ==
  /\ Ready /\ doc.hasHeader /\ lastEvent.type = "scroll" /\ lastEvent.y = 10
  /\ dom.boxShadow = "light"

\* C11: once the page has started up, on either path (the script ran while
\* the document was loading and waited for DOMContentLoaded, or ran after
\* it), the scroll reset and the four initializers have each been called
\* exactly once, the scroll reset first; until then nothing has been called,
\* no listener is registered and no scroll has been forced.  The start-up
\* step itself puts the viewport at the origin.
C11_StartUpOnce ==
  /\ Ready =>
       /\ calls = <<"scrollToTop", "initMobileMenu", "initFAQ",
                    "initSmoothScroll", "initHeaderScroll">>
       /\ lastEvent.type \in {"script", "DOMContentLoaded"} =>
            dom.log = << <<"scrollToOrigin", 0>> >> /\ dom.pageYOffset = 0
  /\ ~Ready =>
       /\ calls = <<>>
       /\ listeners = <<>>
       /\ "scrollToOrigin" \notin Ops(dom)
       /\ dom.scrollRestoration = "auto"
  /\ phase = "deferred" => readyState = "loading"

C11_Witness ==
  /\ Ready /\ lastEvent.type = "DOMContentLoaded"
  /\ calls[1] = "scrollToTop" /\ Len(calls) = 5
  /\ dom.log = << <<"scrollToOrigin", 0>> >>

C11_WitnessImmediate ==
  /\ Ready /\ lastEvent.type = "script" /\ readyState = "interactive"
  /\ calls[1] = "scrollToTop" /\ Len(calls) = 5

MenuListeners == {"toggle.click", "navlink.click", "document.click", "document.keydown"}
Registered == {listeners[i] : i \in 1..Len(listeners)}

\* C12: on a page that lacks the toggle or nav the menu feature registers no
\* listener, and no event changes a menu marker or the toggle's
\* aria-expanded; the accordion, the smooth scroll and the header shadow
\* behave as on the complete page.
C12_NoMenuNoListeners ==
  (~doc.hasToggle \/ ~doc.hasNav) =>
    /\ Registered \cap MenuListeners = {}
    /\ MenuState(dom) = <<FALSE, FALSE, "none">>
    /\ "toggle.setAttribute" \notin Ops(dom)
    /\ Ready => Registered = {"question.click", "question.keydown", "anchor.click", "window.scroll"}
    /\ C3_AriaMatchesExpanded
    /\ C9_ScrollPushFocus
    /\ C10_ShadowByOffset

C12_Witness ==
  /\ Ready /\ ~doc.hasNav /\ IsClickOn(lastEvent, "toggle")
  /\ dom.log = <<>>
  /\ MenuState(dom) = <<FALSE, FALSE, "none">>

\* C13 as stated: a click on a FAQ question raises no error and completes
\* (the other items closed, the clicked one toggled, every aria-expanded the
\* string of its item's flag), also on a page with an item that holds no
\* question or a question whose parent is no item.
C13_AsStated ==
  (Ready /\ IsClickOn(lastEvent, "question")) =>
    /\ "throw" \notin Ops(dom)
    /\ \A k \in Items : (IsFaqItem(k) /\ k # lastEvent.n) => ~dom.faqActive[k]
    /\ dom.faqAria[lastEvent.n] = (IF dom.faqActive[lastEvent.n] THEN "true" ELSE "false")

\* the page state after the last event is handled once more
Again ==
  CASE lastEvent.type = "click" -> DispatchClick(Fresh, lastEvent)
    [] lastEvent.type = "keydown" -> DispatchKeydown(Fresh, lastEvent)
    [] lastEvent.type = "scroll" -> DispatchScroll(Fresh, lastEvent)
    [] OTHER -> Fresh

IsEscape(ev) == ev.type = "keydown" /\ ev.key = "Escape"
IsNavLinkClick(ev) == IsClickOn(ev, "link") /\ ev.inNav
\* a click, inside nav or outside it, that is on neither the toggle nor a
\* FAQ question
IsPlainClick(ev) == ev.type = "click" /\ ev.el \in {"link", "other"}

\* C14 as stated: handling a toggle click, a navigation link click, an
\* outside click, an Escape keydown, a FAQ question click or a scroll event
\* a second time leaves the page state as the first handling left it.
C14_AsStated ==
  (Ready /\ (lastEvent.type \in {"click", "scroll"} \/ IsEscape(lastEvent))) =>
    [Again EXCEPT !.log = <<>>] = Fresh

\* C14 amended: a navigation link click, an outside click that is not on a
\* FAQ question, an Escape keydown and a scroll event are idempotent in
\* everything but the history, to which a click on an anchor with an existing
\* target appends its section each time; a second toggle click flips both
\* menu markers back, and a second click on a FAQ question flips that item's
\* flag back.
C14_ClosersIdempotent ==
  Ready =>
    /\ (IsPlainClick(lastEvent) \/ IsEscape(lastEvent) \/ lastEvent.type = "scroll") =>
         /\ [Again EXCEPT !.log = <<>>, !.history = <<>>] = [Fresh EXCEPT !.history = <<>>]
         /\ Again.history = IF IsAnchorClick(lastEvent, "id")
                              THEN Append(dom.history, lastEvent.n)
                              ELSE dom.history
    /\ IsClickOn(lastEvent, "toggle") =>
         /\ Again.navActive = ~dom.navActive
         /\ Again.toggleActive = ~dom.toggleActive
    /\ IsClickOn(lastEvent, "question") =>
         Again.faqActive[lastEvent.n] = ~dom.faqActive[lastEvent.n]

C14_Witness ==
  /\ Ready /\ IsNavLinkClick(lastEvent) /\ lastEvent.href = "page"
  /\ "toggle.setAttribute" \in Ops(dom)
  /\ Expanded(dom) # {} /\ dom.boxShadow = "heavy"
  /\ [Again EXCEPT !.log = <<>>] = Fresh

\* C15: a scroll event and the start-up leave the menu state and every FAQ
\* item's flag and aria-expanded unchanged; a toggle click, a navigation link
\* click and an Escape keydown leave every FAQ item's flag and aria-expanded
\* unchanged.
C15_Frame ==
  [][ /\ lastEvent'.type \in {"scroll", "script", "DOMContentLoaded"} =>
           MenuState(dom') = MenuState(dom) /\ FaqState(dom') = FaqState(dom)
      /\ (IsClickOn(lastEvent', "toggle") \/ IsNavLinkClick(lastEvent') \/ IsEscape(lastEvent')) =>
           FaqState(dom') = FaqState(dom) ]_vars

C15_Witness ==
  /\ Ready /\ IsNavLinkClick(lastEvent) /\ lastEvent.href = "id"
  /\ "toggle.setAttribute" \in Ops(dom)
  /\ Expanded(dom) # {} /\ \E k \in Items : dom.faqAria[k] = "true"

\* C16: every click on an anchor whose target exists appends exactly one
\* entry, its fragment, to the history, also when the same anchor was the
\* last one clicked; a click on "#", on an anchor whose target is missing,
\* and every other event leave the history as it was.
C16_OnePushPerClick ==
  [][ dom'.history = IF phase = "ready" /\ IsAnchorClick(lastEvent', "id")
                       THEN Append(dom.history, lastEvent'.n)
                       ELSE dom.history ]_vars

C16_Witness ==
  /\ Ready /\ IsAnchorClick(lastEvent, "id")
  /\ dom.history = <<1, 1>>
  /\ "pushState" \in Ops(dom)

\* C17: in every reachable state, under any interleaving of events, the
\* toggle carries the active marker exactly when nav does, and aria-expanded,
\* once written, is the string of that shared open state.
C17_MarkersAgree ==
  /\ dom.toggleActive = dom.navActive
  /\ dom.toggleAria # "none" => dom.toggleAria = BoolToString(dom.navActive)

C17_Witness ==
  /\ Ready /\ IsClickOn(lastEvent, "toggle") /\ toggleRun = -1
  /\ dom.toggleActive /\ dom.navActive /\ dom.toggleAria = "true"
  /\ dom.history # <<>> /\ Expanded(dom) # {}

\* C18: a click on a FAQ question or on a link outside nav while the menu is
\* open closes the menu and has its own effect as well: the question's item
\* is toggled, the other items are closed and the question's aria-expanded
\* is written; an anchor with an existing target has its fragment pushed
\* and its target focused.
C18_ClickAlsoClosesMenu ==
  [][ (phase = "ready" /\ dom.navActive /\ IsOutsideClick(lastEvent')
       /\ lastEvent'.el \in {"question", "link"}) =>
        /\ MenuClosed(dom')
        /\ <<"toggle.setAttribute", 0>> = dom'.log[Len(dom'.log)]
        /\ IsClickOn(lastEvent', "question") =>
             LET q == lastEvent'.n
             IN /\ dom'.faqActive[q] = ~dom.faqActive[q]
                /\ Expanded(dom') \subseteq {q}
                /\ dom'.faqAria[q] = BoolToString(dom'.faqActive[q])
        /\ IsAnchorClick(lastEvent', "id") =>
             /\ dom'.history = Append(dom.history, lastEvent'.n)
             /\ dom'.focus = lastEvent'.n
             /\ "scrollTo" \in Ops(dom') ]_vars

\* a click on a question that closed the open menu and expanded its item
C18_Witness ==
  /\ Ready /\ IsClickOn(lastEvent, "question")
  /\ MenuClosed(dom) /\ dom.log[Len(dom.log)] = <<"toggle.setAttribute", 0>>
  /\ dom.faqActive[lastEvent.n] /\ dom.faqAria[lastEvent.n] = "true"

\* C19: a click on a link inside nav that is an in-page anchor with an
\* existing target runs the menu's listener and then the anchor's: the
\* effects are, in this order, aria-expanded set to "false", default
\* prevented, scroll requested, fragment pushed, tabindex set, target
\* focused, and nothing after them from the document's click listener; the
\* menu is closed.
C19_MenuThenScroll ==
  (Ready /\ IsNavLinkClick(lastEvent) /\ lastEvent.href = "id") =>
    LET id == lastEvent.n
        headerHeight == IF doc.hasHeader THEN lastEvent.hh ELSE 0
    IN /\ dom.log = << <<"toggle.setAttribute", 0>>,
                       <<"preventDefault", 0>>,
                       <<"scrollTo", lastEvent.top - headerHeight - ScrollPadding>>,
                       <<"pushState", id>>, <<"setTabindex", id>>, <<"focus", id>> >>
       /\ MenuClosed(dom)

C19_Witness ==
  /\ Ready /\ IsNavLinkClick(lastEvent) /\ lastEvent.href = "id"
  /\ Len(dom.log) = 6 /\ dom.log[1][1] = "toggle.setAttribute" /\ dom.log[6][1] = "focus"
  /\ dom.focus = lastEvent.n /\ ~dom.navActive

=============================================================================
